---- MODULE Spec2Model ----
(***************************************************************************)
(* Model of the Month class of streamlit_app.py: the three assignment      *)
(* procedures (sessions, standby, clinic) and the row merge of             *)
(* generate_schedule.  Python's None is modelled by the string "None" for  *)
(* doctor names and by the empty tuple for a day without a session; the    *)
(* random module is modelled by nondeterministic choice over every value   *)
(* a draw can return.                                                      *)
(***************************************************************************)
EXTENDS Integers, Sequences, FiniteSets, TLC

\* ------------------------------------------------------------------ bounds
\* Month lengths explored when assign_sessions / generate_schedule run.
MinDays == 3
MaxDays == 4
\* Month lengths explored when the whole of generate_schedule runs.
GenMinDays == 5
GenMaxDays == 6
\* The largest number of generate_schedule calls made on one Month object.
MaxCalls == 2

\* ------------------------------------------------------- program constants
\* The month lengths the application's form accepts.
AppMinDays == 28
AppMaxDays == 31
AttemptCap == 1000
HanaCoronaryFirst == 3
CoronaryFirstQuota == 2
CoronarySecondQuota == 2
TaviFirstQuota == 1
TaviSecondQuota == 1
StandbyQuota == 5
HanaStandbyQuota == 4
ClinicSampleSize == 3

None == "None"
NoSession == <<>>

\* ----------------------------------------------------------------- helpers
Range(s) == {s[k] : k \in 1..Len(s)}

\* All orderings of a finite set, as sequences: the results of random.shuffle.
Perms(S) ==
    {p \in [1..Cardinality(S) -> S] : \A a, b \in 1..Cardinality(S) : p[a] = p[b] => a = b}

\* The ascending list of the members of a set of integers (a list comprehension
\* over range(...)).
RECURSIVE SortedSeq(_)
SortedSeq(S) ==
    IF S = {} THEN <<>>
    ELSE LET m == CHOOSE x \in S : \A y \in S : x <= y
         IN <<m>> \o SortedSeq(S \ {m})

\* list.pop(k) for a 1-based position k.
RemoveAt(s, k) == [j \in 1..(Len(s) - 1) |-> IF j < k THEN s[j] ELSE s[j + 1]]

\* ------------------------------------------------------------------- state
VARIABLES
    \* fields of the Month object
    doctors, weekends, start_day, num_of_days_in_month,
    unavailable_sessions_days, unavailable_standby_days,
    unavailable_clinic_days, holidays, schedule, standby,
    \* control: the method the caller invoked, the number of further calls of
    \* it the caller makes on the same object, the position in the method,
    \* the exception that ended it ("None" while none was raised)
    call, calls_left, pc, error,
    \* locals of assign_sessions
    coronary_first, coronary_second, tavi_first, tavi_second,
    days, i, chosen_first, chosen_second, first_candidate, second_candidate,
    \* locals of assign_standby
    regulars, specials, standby_counts, saturdays, fridays, k,
    \* locals of generate_schedule
    clinic_days, clinic_assignments, count, rows

fields == <<doctors, weekends, start_day, num_of_days_in_month,
            unavailable_sessions_days, unavailable_standby_days,
            unavailable_clinic_days, holidays>>
sessionLocals == <<coronary_first, coronary_second, tavi_first, tavi_second,
                   days, i, chosen_first, chosen_second, first_candidate,
                   second_candidate>>
standbyLocals == <<regulars, specials, standby_counts, saturdays, fridays, k>>
clinicLocals == <<clinic_days, clinic_assignments, count, rows>>
vars == <<fields, schedule, standby, call, calls_left, pc, error, sessionLocals,
          standbyLocals, clinicLocals>>

\* The days of the month: range(1, self.num_of_days_in_month).
Days == 1..(num_of_days_in_month - 1)

\* dict.get(name, []) on an unavailability dictionary.
Get(dict, name) == IF name \in DOMAIN dict THEN dict[name] ELSE {}

\* The roster is a dict, kept here as the list of its (name, type) items in
\* insertion order.
NamesOfType(roster, type) ==
    LET items == SelectSeq(roster, LAMBDA it : it[2] = type)
    IN [j \in 1..Len(items) |-> items[j][1]]

\* Month.is_weekday
day_of_week(day) == (start_day + day - 1) % 7

\* is_weekday without the test against the weekend set.
is_weekday_any(day) == TRUE

is_weekday(day) == day_of_week(day) \notin weekends

\* Raising an exception unwinds the call: the locals are gone and the Month
\* object keeps what was written to it.
DropSessionLocals ==
    /\ coronary_first' = <<>> /\ coronary_second' = <<>>
    /\ tavi_first' = <<>> /\ tavi_second' = <<>>
    /\ days' = <<>> /\ i' = 0
    /\ chosen_first' = None /\ chosen_second' = None
    /\ first_candidate' = None /\ second_candidate' = None
DropStandbyLocals ==
    /\ regulars' = <<>> /\ specials' = <<>> /\ standby_counts' = <<>>
    /\ saturdays' = <<>> /\ fridays' = <<>> /\ k' = 0
Raise(exception) == pc' = "error" /\ error' = exception

\* ---------------------------------------------------------- assign_sessions
half_point == Len(days) \div 2
CurrentDay == days[i + 1]
session_type == IF i < half_point THEN "coronary" ELSE "TAVI"
first == IF session_type = "coronary" THEN coronary_first ELSE tavi_first
second == IF session_type = "coronary" THEN coronary_second ELSE tavi_second

\* Candidates without the "> 0" filter of lines 56-57.
CandidatesIgnoringQuota(table) == NamesOfType(doctors, "regular")

\* [doc for doc in table if table[doc] > 0]: the quota dictionaries are built
\* from the regulars list, so they iterate in its order.
Candidates(table) ==
    SelectSeq(NamesOfType(doctors, "regular"), LAMBDA doc : table[doc] > 0)
first_candidates == Candidates(first)
second_candidates == Candidates(second)

\* The inner "while True" loop (lines 67-72).  A draw breaks the loop when it
\* differs from both chosen_first and first_candidate, or when attempts has
\* passed AttemptCap; a failed draw adds one to attempts.
BreaksLoop(s, chosen, firstCand, attempts) ==
    (s # chosen /\ s # firstCand) \/ attempts > AttemptCap

\* The values attempts can hold when a draw is made: it grows only by failed
\* draws, and a draw made with attempts = AttemptCap + 1 always breaks the loop.
AttemptsAtDraw(candidates, chosen, firstCand) ==
    IF \E s \in Range(candidates) : ~BreaksLoop(s, chosen, firstCand, 0)
    THEN 0..(AttemptCap + 1)
    ELSE {0}

\* The values second_candidate can hold when the loop has ended.
SecondDraws(candidates, chosen, firstCand) ==
    {s \in Range(candidates) :
        \E attempts \in AttemptsAtDraw(candidates, chosen, firstCand) :
            BreaksLoop(s, chosen, firstCand, attempts)}

\* Keep without the unavailable-day test of lines 75 and 79.
KeepUnchecked(chosen, candidate, day) ==
    IF chosen = None THEN candidate ELSE chosen

\* The availability re-check of a drawn candidate (lines 74-80): the candidate
\* is kept only for an open slot and only when the day is not in the
\* candidate's unavailable-session list.
Keep(chosen, candidate, day) ==
    IF chosen = None
    THEN IF day \notin Get(unavailable_sessions_days, candidate)
         THEN candidate ELSE None
    ELSE chosen

SessionsStart ==
    /\ pc = "assign_sessions"
    /\ LET regs == Range(NamesOfType(doctors, "regular"))
       IN  /\ coronary_first' =
                [n \in regs |-> IF n = "Hana" THEN HanaCoronaryFirst
                                ELSE CoronaryFirstQuota]
           /\ coronary_second' = [n \in regs |-> CoronarySecondQuota]
           /\ tavi_first' = [n \in regs |-> TaviFirstQuota]
           /\ tavi_second' = [n \in regs |-> TaviSecondQuota]
    /\ days' \in Perms({d \in Days : is_weekday(d)})
    /\ i' = 0
    /\ pc' = "sessions_loop"
    /\ UNCHANGED <<fields, schedule, standby, call, calls_left, error, chosen_first,
                   chosen_second, first_candidate, second_candidate,
                   standbyLocals, clinicLocals>>

SkipHoliday ==
    /\ pc = "sessions_loop"
    /\ i < Len(days)
    /\ CurrentDay \in holidays
    /\ i' = i + 1
    /\ UNCHANGED <<fields, schedule, standby, call, calls_left, pc, error, coronary_first,
                   coronary_second, tavi_first, tavi_second, days,
                   chosen_first, chosen_second, first_candidate,
                   second_candidate, standbyLocals, clinicLocals>>

SkipExhausted ==
    /\ pc = "sessions_loop"
    /\ i < Len(days)
    /\ CurrentDay \notin holidays
    /\ first_candidates = <<>> \/ second_candidates = <<>>
    /\ i' = i + 1
    /\ UNCHANGED <<fields, schedule, standby, call, calls_left, pc, error, coronary_first,
                   coronary_second, tavi_first, tavi_second, days,
                   chosen_first, chosen_second, first_candidate,
                   second_candidate, standbyLocals, clinicLocals>>

BeginPairing ==
    /\ pc = "sessions_loop"
    /\ i < Len(days)
    /\ CurrentDay \notin holidays
    /\ first_candidates # <<>> /\ second_candidates # <<>>
    /\ chosen_first' = None
    /\ chosen_second' = None
    /\ pc' = "pairing"
    /\ UNCHANGED <<fields, schedule, standby, call, calls_left, error, coronary_first,
                   coronary_second, tavi_first, tavi_second, days, i,
                   first_candidate, second_candidate, standbyLocals,
                   clinicLocals>>

\* One pass of the body of "while chosen_first == None or chosen_second == None".
PairingAttempt ==
    /\ pc = "pairing"
    /\ chosen_first = None \/ chosen_second = None
    /\ \E fc \in Range(first_candidates) :
         \E sc \in SecondDraws(second_candidates, chosen_first, fc) :
            /\ first_candidate' = fc
            /\ second_candidate' = sc
            /\ chosen_first' = Keep(chosen_first, fc, CurrentDay)
            /\ chosen_second' = Keep(chosen_second, sc, CurrentDay)
    /\ UNCHANGED <<fields, schedule, standby, call, calls_left, pc, error, coronary_first,
                   coronary_second, tavi_first, tavi_second, days, i,
                   standbyLocals, clinicLocals>>

\* Lines 82-84, after the while loop has ended.
CommitSession ==
    /\ pc = "pairing"
    /\ chosen_first # None /\ chosen_second # None
    /\ schedule' = [schedule EXCEPT
                      ![CurrentDay] = <<session_type, chosen_first, chosen_second>>]
    /\ IF session_type = "coronary"
       THEN /\ coronary_first' = [coronary_first EXCEPT ![chosen_first] = @ - 1]
            /\ coronary_second' = [coronary_second EXCEPT ![chosen_second] = @ - 1]
            /\ UNCHANGED <<tavi_first, tavi_second>>
       ELSE /\ tavi_first' = [tavi_first EXCEPT ![chosen_first] = @ - 1]
            /\ tavi_second' = [tavi_second EXCEPT ![chosen_second] = @ - 1]
            /\ UNCHANGED <<coronary_first, coronary_second>>
    /\ i' = i + 1
    /\ pc' = "sessions_loop"
    /\ UNCHANGED <<fields, standby, call, calls_left, error, days, chosen_first,
                   chosen_second, first_candidate, second_candidate,
                   standbyLocals, clinicLocals>>

\* The for loop is over: assign_sessions returns and its locals are dropped.
SessionsReturn ==
    /\ pc = "sessions_loop"
    /\ i = Len(days)
    /\ pc' = IF call = "generate_schedule" THEN "assign_standby" ELSE "done"
    /\ DropSessionLocals
    /\ UNCHANGED <<fields, schedule, standby, call, calls_left, error, standbyLocals,
                   clinicLocals>>

NextSessions ==
    \/ SessionsStart
    \/ SkipHoliday
    \/ SkipExhausted
    \/ BeginPairing
    \/ PairingAttempt
    \/ CommitSession
    \/ SessionsReturn
\* ----------------------------------------------------------- assign_standby
\* list.remove(x) on a list that holds x once.
Remove(s, x) == SelectSeq(s, LAMBDA y : y # x)

\* The days of the month that fall on a given day of the week, ascending
\* (lines 98-99).
DaysOn(dow) == SortedSeq({d \in Days : day_of_week(d) = dow})

\* Lines 122: the weekday list of the weekday-fill phase.
weekdays == SortedSeq({d \in Days : is_weekday(d)})

AvailableForStandby(name, day) == day \notin Get(unavailable_standby_days, name)

\* Lines 88-99.
StandbyStart ==
    /\ pc = "assign_standby"
    /\ LET all == NamesOfType(doctors, "special")
       IN  /\ "Greenberg" \in Range(all)
           /\ "Katya" \in Range(all)
           /\ specials' = Remove(Remove(all, "Greenberg"), "Katya")
    /\ regulars' = NamesOfType(doctors, "regular")
    /\ standby_counts' =
         [n \in Range(NamesOfType(doctors, "regular")) \cup {"Hana"} |->
            IF n = "Hana" THEN HanaStandbyQuota ELSE StandbyQuota]
    /\ saturdays' = DaysOn(6)
    /\ fridays' = DaysOn(5)
    /\ k' = 0
    /\ pc' = "standby_hana"
    /\ UNCHANGED <<fields, schedule, standby, call, calls_left, error, sessionLocals,
                   clinicLocals>>

\* Lines 90-91: list.remove raises ValueError when the name is not a special
\* doctor of the roster.
StandbyRemoveFails ==
    /\ pc = "assign_standby"
    /\ LET all == NamesOfType(doctors, "special")
       IN  "Greenberg" \notin Range(all) \/ "Katya" \notin Range(all)
    /\ Raise("ValueError")
    /\ UNCHANGED <<fields, schedule, standby, call, calls_left, sessionLocals,
                   standbyLocals, clinicLocals>>

\* Positions of the Saturdays on which Hana is available.
HanaSaturdays ==
    {j \in 1..Len(saturdays) : AvailableForStandby("Hana", saturdays[j])}

\* Lines 101-108 without the pop of line 107: Hana's Saturday stays in the
\* list of the weekend-block phase.
HanaSaturdayKeepsList ==
    /\ pc = "standby_hana"
    /\ IF HanaSaturdays = {}
       THEN UNCHANGED <<standby, standby_counts>>
       ELSE LET j == CHOOSE x \in HanaSaturdays : \A y \in HanaSaturdays : x <= y
            IN  /\ standby' = [standby EXCEPT ![saturdays[j]] = "Hana"]
                /\ standby_counts' = [standby_counts EXCEPT !["Hana"] = @ - 1]
    /\ pc' = "standby_weekend"
    /\ UNCHANGED <<fields, schedule, call, calls_left, error, sessionLocals,
                   regulars, specials, saturdays, fridays, k, clinicLocals>>

\* Lines 101-108: Hana takes the first Saturday she is available on, and that
\* Saturday leaves the list.
HanaSaturday ==
    /\ pc = "standby_hana"
    /\ IF HanaSaturdays = {}
       THEN UNCHANGED <<standby, standby_counts, saturdays>>
       ELSE LET j == CHOOSE x \in HanaSaturdays : \A y \in HanaSaturdays : x <= y
            IN  /\ standby' = [standby EXCEPT ![saturdays[j]] = "Hana"]
                /\ standby_counts' = [standby_counts EXCEPT !["Hana"] = @ - 1]
                /\ saturdays' = RemoveAt(saturdays, j)
    /\ pc' = "standby_weekend"
    /\ UNCHANGED <<fields, schedule, call, calls_left, error, sessionLocals, regulars,
                   specials, fridays, k, clinicLocals>>

\* zip(fridays, saturdays) stops with the shorter list.
WeekendPairs == IF Len(fridays) < Len(saturdays) THEN Len(fridays) ELSE Len(saturdays)

\* The condition of line 115 without the skip of Hana.
TakesWeekendAnyone(name, friday, saturday) ==
    /\ standby_counts[name] >= 2
    /\ AvailableForStandby(name, friday)
    /\ AvailableForStandby(name, saturday)

\* The condition of line 115 without the test of the remaining quota.
TakesWeekendAnyQuota(name, friday, saturday) ==
    /\ name # "Hana"
    /\ AvailableForStandby(name, friday)
    /\ AvailableForStandby(name, saturday)

\* The condition of line 115, with Hana skipped (lines 113-114).
TakesWeekend(name, friday, saturday) ==
    /\ name # "Hana"
    /\ standby_counts[name] >= 2
    /\ AvailableForStandby(name, friday)
    /\ AvailableForStandby(name, saturday)

\* Lines 111-119, one (friday, saturday) pair of the zip.
WeekendBlock ==
    /\ pc = "standby_weekend"
    /\ k < WeekendPairs
    /\ LET friday == fridays[k + 1]
           saturday == saturdays[k + 1]
           takers == {j \in 1..Len(regulars) :
                         TakesWeekend(regulars[j], friday, saturday)}
       IN  IF takers = {}
           THEN UNCHANGED <<standby, standby_counts>>
           ELSE LET name == regulars[CHOOSE x \in takers : \A y \in takers : x <= y]
                IN  /\ standby' = [standby EXCEPT ![friday] = name,
                                                  ![saturday] = name]
                    /\ standby_counts' = [standby_counts EXCEPT ![name] = @ - 2]
    /\ k' = k + 1
    /\ UNCHANGED <<fields, schedule, call, calls_left, pc, error, sessionLocals, regulars,
                   specials, saturdays, fridays, clinicLocals>>

WeekendDone ==
    /\ pc = "standby_weekend"
    /\ k = WeekendPairs
    /\ k' = 0
    /\ pc' = "standby_weekdays"
    /\ UNCHANGED <<fields, schedule, standby, call, calls_left, error, sessionLocals,
                   regulars, specials, standby_counts, saturdays, fridays,
                   clinicLocals>>

\* The condition of line 128 without the test of the unavailable days.
TakesWeekdayUnchecked(name, day) ==
    /\ standby_counts[name] > 0
    /\ standby[day] = None

\* The condition of line 128.
TakesWeekday(name, day) ==
    /\ standby_counts[name] > 0
    /\ standby[day] = None
    /\ AvailableForStandby(name, day)

\* Lines 123-131, one weekday: the regulars are shuffled, and the first of
\* them that meets line 128 takes the day.
WeekdayFill ==
    /\ pc = "standby_weekdays"
    /\ k < Len(weekdays)
    /\ \E c \in DOMAIN standby_counts : standby_counts[c] > 0
    /\ \E order \in Perms(Range(regulars)) :
         /\ regulars' = order
         /\ LET day == weekdays[k + 1]
                takers == {j \in 1..Len(order) : TakesWeekday(order[j], day)}
            IN  IF takers = {}
                THEN UNCHANGED <<standby, standby_counts>>
                ELSE LET name == order[CHOOSE x \in takers : \A y \in takers : x <= y]
                     IN  /\ standby' = [standby EXCEPT ![day] = name]
                         /\ standby_counts' = [standby_counts EXCEPT ![name] = @ - 1]
    /\ k' = k + 1
    /\ UNCHANGED <<fields, schedule, call, calls_left, pc, error, sessionLocals, specials,
                   saturdays, fridays, clinicLocals>>

\* Lines 124-126: the loop breaks, after the shuffle, once no count is above 0.
WeekdayBreak ==
    /\ pc = "standby_weekdays"
    /\ k < Len(weekdays)
    /\ \A c \in DOMAIN standby_counts : standby_counts[c] <= 0
    /\ regulars' \in Perms(Range(regulars))
    /\ k' = 0
    /\ pc' = "standby_fallback"
    /\ UNCHANGED <<fields, schedule, standby, call, calls_left, error, sessionLocals,
                   specials, standby_counts, saturdays, fridays, clinicLocals>>

WeekdaysDone ==
    /\ pc = "standby_weekdays"
    /\ k = Len(weekdays)
    /\ k' = 0
    /\ pc' = "standby_fallback"
    /\ UNCHANGED <<fields, schedule, standby, call, calls_left, error, sessionLocals,
                   regulars, specials, standby_counts, saturdays, fridays,
                   clinicLocals>>

\* The fallback loop stopping one day short of the month's last day.
FallbackDaysShort == num_of_days_in_month - 2

\* The number of days the fallback loop of line 134 visits:
\* range(1, self.num_of_days_in_month).
FallbackDays == num_of_days_in_month - 1

\* Lines 134-136, one day with a standby doctor already.
FallbackSkip ==
    /\ pc = "standby_fallback"
    /\ k < FallbackDays
    /\ standby[k + 1] # None
    /\ k' = k + 1
    /\ UNCHANGED <<fields, schedule, standby, call, calls_left, pc, error, sessionLocals,
                   regulars, specials, standby_counts, saturdays, fridays,
                   clinicLocals>>

\* Lines 134-136, one day without a standby doctor: random.choice(specials).
FallbackFill ==
    /\ pc = "standby_fallback"
    /\ k < FallbackDays
    /\ standby[k + 1] = None
    /\ \E name \in Range(specials) :
         standby' = [standby EXCEPT ![k + 1] = name]
    /\ k' = k + 1
    /\ UNCHANGED <<fields, schedule, call, calls_left, pc, error, sessionLocals, regulars,
                   specials, standby_counts, saturdays, fridays, clinicLocals>>

\* The fallback loop passing over a day it cannot fill when the pool is empty.
FallbackFailsSilently ==
    /\ pc = "standby_fallback"
    /\ k < FallbackDays
    /\ standby[k + 1] = None
    /\ specials = <<>>
    /\ k' = k + 1
    /\ UNCHANGED <<fields, schedule, standby, call, calls_left, pc, error, sessionLocals,
                   regulars, specials, standby_counts, saturdays, fridays,
                   clinicLocals>>

\* random.choice of an empty list raises IndexError.
FallbackFails ==
    /\ pc = "standby_fallback"
    /\ k < FallbackDays
    /\ standby[k + 1] = None
    /\ specials = <<>>
    /\ Raise("IndexError")
    /\ DropStandbyLocals
    /\ UNCHANGED <<fields, schedule, standby, call, calls_left, sessionLocals,
                   clinicLocals>>

StandbyReturn ==
    /\ pc = "standby_fallback"
    /\ k = FallbackDays
    /\ pc' = IF call = "generate_schedule" THEN "clinic" ELSE "done"
    /\ DropStandbyLocals
    /\ UNCHANGED <<fields, schedule, standby, call, calls_left, error, sessionLocals,
                   clinicLocals>>

NextStandby ==
    \/ StandbyStart
    \/ StandbyRemoveFails
    \/ HanaSaturday
    \/ WeekendBlock
    \/ WeekendDone
    \/ WeekdayFill
    \/ WeekdayBreak
    \/ WeekdaysDone
    \/ FallbackSkip
    \/ FallbackFill
    \/ FallbackFails
    \/ StandbyReturn

\* -------------------------------------------------------- generate_schedule
\* Line 140: generate_schedule starts by calling assign_sessions.
GenerateStart ==
    /\ pc = "generate_schedule"
    /\ pc' = "assign_sessions"
    /\ UNCHANGED <<fields, schedule, standby, call, calls_left, error, sessionLocals,
                   standbyLocals, clinicLocals>>

\* The population of line 143: the weekdays that are not clinic-unavailable.
ClinicPopulation ==
    SortedSeq({day \in Days : is_weekday(day) /\ day \notin unavailable_clinic_days})

\* random.sample(population, size): every list of size distinct members.
Samples(population, size) ==
    {smp \in [1..size -> Range(population)] :
        \A a, b \in 1..size : smp[a] = smp[b] => a = b}

\* Lines 143-145.
ClinicSample ==
    /\ pc = "clinic"
    /\ Len(ClinicPopulation) >= ClinicSampleSize
    /\ clinic_days' \in Samples(ClinicPopulation, ClinicSampleSize)
    /\ clinic_assignments' = <<>>
    /\ count' = [name \in {"Perl", "Amos"} |-> 0]
    /\ k' = 0
    /\ pc' = "clinic_assign"
    /\ UNCHANGED <<fields, schedule, standby, call, calls_left, error, sessionLocals,
                   regulars, specials, standby_counts, saturdays, fridays, rows>>

\* The sample cut down to the population when fewer than three days are
\* eligible.
ClinicSampleTruncates ==
    /\ pc = "clinic"
    /\ Len(ClinicPopulation) < ClinicSampleSize
    /\ clinic_days' \in Samples(ClinicPopulation, Len(ClinicPopulation))
    /\ clinic_assignments' = <<>>
    /\ count' = [name \in {"Perl", "Amos"} |-> 0]
    /\ k' = 0
    /\ pc' = "clinic_assign"
    /\ UNCHANGED <<fields, schedule, standby, call, calls_left, error, sessionLocals,
                   regulars, specials, standby_counts, saturdays, fridays, rows>>

\* random.sample raises ValueError when the sample is larger than the
\* population.
ClinicSampleFails ==
    /\ pc = "clinic"
    /\ Len(ClinicPopulation) < ClinicSampleSize
    /\ Raise("ValueError")
    /\ UNCHANGED <<fields, schedule, standby, call, calls_left, sessionLocals,
                   standbyLocals, clinicLocals>>

\* The choice of lines 147-152 without the comparison of the counts.
ClinicChoicesAny == {"Perl", "Amos"}

\* Lines 147-152: the doctors chosen can be for the next clinic day.
ClinicChoices ==
    IF count["Perl"] = count["Amos"] THEN {"Perl", "Amos"}
    ELSE IF count["Perl"] < count["Amos"] THEN {"Perl"}
    ELSE {"Amos"}

\* dict[key] = value.
Put(dict, key, value) ==
    [x \in DOMAIN dict \cup {key} |-> IF x = key THEN value ELSE dict[x]]

\* Lines 146-154, one clinic day.
ClinicAssign ==
    /\ pc = "clinic_assign"
    /\ k < Len(clinic_days)
    /\ \E chosen \in ClinicChoices :
         /\ clinic_assignments' = Put(clinic_assignments, clinic_days[k + 1], chosen)
         /\ count' = [count EXCEPT ![chosen] = @ + 1]
    /\ k' = k + 1
    /\ UNCHANGED <<fields, schedule, standby, call, calls_left, pc, error, sessionLocals,
                   regulars, specials, standby_counts, saturdays, fridays,
                   clinic_days, rows>>

\* "x or ''" for a standby entry.
OrEmpty(x) == IF x = None \/ x = "" THEN "" ELSE x

\* The row of one day with the clinic column left empty.
RowWithoutClinic(day) ==
    LET session_info == schedule[day]
    IN  IF session_info # NoSession
        THEN <<day, session_info[1], session_info[2], session_info[3],
               OrEmpty(standby[day]), "">>
        ELSE <<day, "", "", "", OrEmpty(standby[day]), "">>

\* Lines 158-170: the row of one day.
Row(day) ==
    LET session_info == schedule[day]
        clinic_doctor == IF day \in DOMAIN clinic_assignments
                         THEN clinic_assignments[day] ELSE ""
    IN  IF session_info # NoSession
        THEN <<day, session_info[1], session_info[2], session_info[3],
               OrEmpty(standby[day]), clinic_doctor>>
        ELSE <<day, "", "", "", OrEmpty(standby[day]), clinic_doctor>>

\* The row merge taking each day's entry out of the standby map
\* (self.standby.pop(day) in place of self.standby.get(day)).
BuildRowsConsumesMaps ==
    /\ pc = "clinic_assign"
    /\ k = Len(clinic_days)
    /\ rows' = [day \in Days |-> Row(day)]
    /\ standby' = [day \in Days |-> None]
    /\ clinic_days' = <<>> /\ clinic_assignments' = <<>> /\ count' = <<>>
    /\ k' = 0
    /\ pc' = "done"
    /\ UNCHANGED <<fields, schedule, call, calls_left, error, sessionLocals,
                   regulars, specials, standby_counts, saturdays, fridays>>

\* Lines 155-173: the rows are built for days 1..N and returned as the table.
BuildRows ==
    /\ pc = "clinic_assign"
    /\ k = Len(clinic_days)
    /\ rows' = [day \in Days |-> Row(day)]
    /\ clinic_days' = <<>> /\ clinic_assignments' = <<>> /\ count' = <<>>
    /\ k' = 0
    /\ pc' = "done"
    /\ UNCHANGED <<fields, schedule, standby, call, calls_left, error, sessionLocals,
                   regulars, specials, standby_counts, saturdays, fridays>>

\* The caller calls generate_schedule once more on the same Month object: the
\* locals are new, the object's fields are as the earlier call left them.
GenerateAgain ==
    /\ pc = "done"
    /\ call = "generate_schedule"
    /\ calls_left > 0
    /\ calls_left' = calls_left - 1
    /\ rows' = <<>>
    /\ pc' = "generate_schedule"
    /\ UNCHANGED <<fields, schedule, standby, call, error, sessionLocals,
                   standbyLocals, clinic_days, clinic_assignments, count>>

Next ==
    \/ GenerateStart
    \/ NextSessions
    \/ NextStandby
    \/ ClinicSample
    \/ ClinicSampleFails
    \/ ClinicAssign
    \/ BuildRows
    \/ GenerateAgain

\* ------------------------------------------------------------ initial states
\* Rosters (name, type) in the order of the application's dictionary, cut down
\* to two regular doctors.
RosterPair ==
    << <<"Hana", "regular">>, <<"Pablo", "regular">>, <<"Giorgi", "special">>,
       <<"Greenberg", "special">>, <<"Katya", "special">> >>
RosterSolo ==
    << <<"Hana", "regular">>, <<"Giorgi", "special">>,
       <<"Greenberg", "special">>, <<"Katya", "special">> >>

\* The application passes weekends=[5, 6] (Friday, Saturday).
AppWeekends == {5, 6}

\* Unavailability lists a doctor can enter for a month of n days.
DayLists(n) == {{}, {1}, 1..n}

\* Month.__init__ for a month of n days, and the locals of the three methods
\* before any of them has run.
NewMonth(n) ==
    /\ num_of_days_in_month = n + 1
    /\ schedule = [day \in 1..n |-> NoSession]
    /\ standby = [day \in 1..n |-> None]

NoLocals ==
    /\ coronary_first = <<>> /\ coronary_second = <<>>
    /\ tavi_first = <<>> /\ tavi_second = <<>>
    /\ days = <<>> /\ i = 0
    /\ chosen_first = None /\ chosen_second = None
    /\ first_candidate = None /\ second_candidate = None
    /\ regulars = <<>> /\ specials = <<>> /\ standby_counts = <<>>
    /\ saturdays = <<>> /\ fridays = <<>> /\ k = 0
    /\ clinic_days = <<>> /\ clinic_assignments = <<>>
    /\ count = <<>> /\ rows = <<>>

\* A caller builds a Month and calls assign_sessions on it.
InitSessions ==
    /\ call = "assign_sessions" /\ pc = "assign_sessions" /\ error = None
    /\ calls_left = 0
    /\ doctors \in {RosterPair, RosterSolo}
    /\ weekends = AppWeekends
    /\ start_day \in {0, 3}
    /\ \E n \in MinDays..MaxDays :
         /\ NewMonth(n)
         /\ unavailable_sessions_days \in
              [Range(NamesOfType(doctors, "regular")) -> DayLists(n)]
         /\ holidays \in {{}, {2}}
    /\ unavailable_standby_days = <<>>
    /\ unavailable_clinic_days = {}
    /\ NoLocals

SpecSessions == InitSessions /\ [][NextSessions]_vars
\* Rosters without a standby-eligible special doctor, and without Katya.
RosterNoPool ==
    << <<"Hana", "regular">>, <<"Pablo", "regular">>,
       <<"Greenberg", "special">>, <<"Katya", "special">> >>
RosterNoKatya ==
    << <<"Hana", "regular">>, <<"Pablo", "regular">>, <<"Giorgi", "special">>,
       <<"Greenberg", "special">> >>

\* Unavailable-standby lists: none, the first week, the whole month.
StandbyDayLists(n) == {{}, 1..7, 1..n}

\* A caller builds a Month of the application's size and calls assign_standby.
InitStandby ==
    /\ call = "assign_standby" /\ pc = "assign_standby" /\ error = None
    /\ calls_left = 0
    /\ doctors \in {RosterPair, RosterNoPool, RosterNoKatya}
    /\ weekends = AppWeekends
    /\ start_day \in 0..6
    /\ \E n \in AppMinDays..AppMaxDays :
         /\ NewMonth(n)
         /\ unavailable_standby_days \in
              [{"Hana", "Pablo", "Giorgi"} -> StandbyDayLists(n)]
    /\ unavailable_sessions_days = <<>>
    /\ unavailable_clinic_days = {}
    /\ holidays = {}
    /\ NoLocals

SpecStandby == InitStandby /\ [][NextStandby]_vars

\* Rosters with one regular doctor, for the runs of the whole of
\* generate_schedule.
RosterSoloNoPool ==
    << <<"Hana", "regular">>, <<"Greenberg", "special">>, <<"Katya", "special">> >>
RosterSoloNoKatya ==
    << <<"Hana", "regular">>, <<"Giorgi", "special">>, <<"Greenberg", "special">> >>

\* A Month is built and generate_schedule is called, as the application does.
InitGenerate ==
    /\ call = "generate_schedule" /\ pc = "generate_schedule" /\ error = None
    /\ calls_left = 0
    /\ doctors \in {RosterSolo, RosterSoloNoPool, RosterSoloNoKatya}
    /\ weekends = AppWeekends
    /\ start_day \in {0, 4}
    /\ \E n \in GenMinDays..GenMaxDays :
         /\ NewMonth(n)
         /\ unavailable_sessions_days \in {<<>>, [name \in {"Hana"} |-> {1}]}
         /\ unavailable_standby_days \in
              {<<>>, [name \in {"Hana", "Giorgi"} |-> 1..n]}
         /\ unavailable_clinic_days \in {{}, {1, 2, 3}}
         /\ holidays \in {{}, {2}}
    /\ NoLocals

\* A Month is built and generate_schedule is called on it more than once.
InitRerun ==
    /\ call = "generate_schedule" /\ pc = "generate_schedule" /\ error = None
    /\ calls_left = MaxCalls - 1
    /\ doctors = RosterSolo
    /\ weekends = AppWeekends
    /\ start_day = 0
    /\ NewMonth(MinDays)
    /\ unavailable_sessions_days = <<>>
    /\ unavailable_standby_days = <<>>
    /\ unavailable_clinic_days = {}
    /\ holidays = {}
    /\ NoLocals

\* Every way the class is used: generate_schedule, once or again on the same
\* object, or one of the two assigners called on its own.
Init == InitGenerate \/ InitRerun \/ InitSessions \/ InitStandby

Spec == Init /\ [][Next]_vars

\* ------------------------------------------------- claims on assign_sessions
Recorded(day) == schedule[day] # NoSession
RegularNames == Range(NamesOfType(doctors, "regular"))

\* The number of recorded sessions of a type in which a doctor holds a position
\* (2 = primary, 3 = secondary).
Assigned(type, pos, doc) ==
    Cardinality({day \in DOMAIN schedule :
                    /\ Recorded(day)
                    /\ schedule[day][1] = type
                    /\ schedule[day][pos] = doc})

\* C1: in every recorded session the primary and the secondary doctor differ.
C1_PrimaryDiffersFromSecondary ==
    \A day \in DOMAIN schedule :
        Recorded(day) => schedule[day][2] # schedule[day][3]

\* A pass of the pairing loop that fills an open slot.
PairingProgress ==
    /\ PairingAttempt
    /\ chosen_first' # chosen_first \/ chosen_second' # chosen_second

\* C2: the pairing loop never deadlocks: whenever it is running with an open
\* slot, some draw fills a slot, so that the loop can still end.
C2_PairingLoopCanEnd ==
    (pc = "pairing" /\ (chosen_first = None \/ chosen_second = None)) =>
        ENABLED PairingProgress

\* C5: neither doctor of a recorded session has the session's day in their
\* unavailable-session list.
C5_BothAvailableOnDay ==
    \A day \in DOMAIN schedule :
        Recorded(day) =>
            /\ day \notin Get(unavailable_sessions_days, schedule[day][2])
            /\ day \notin Get(unavailable_sessions_days, schedule[day][3])

\* A session was just committed on a day some regular doctor cannot work, and
\* its primary was kept from an earlier pass of the loop than its secondary:
\* a draw was rejected and redone.
C5_Witness ==
    /\ pc = "sessions_loop" /\ i > 0
    /\ Recorded(days[i])
    /\ first_candidate # schedule[days[i]][2]
    /\ \E doc \in RegularNames : days[i] \in Get(unavailable_sessions_days, doc)

\* The quota the claim states for a sub-role.
ClaimedQuota(type, pos, doc) ==
    IF type = "coronary"
    THEN IF pos = 2 THEN (IF doc = "Hana" THEN 3 ELSE 2) ELSE 2
    ELSE 1

QuotaTable(type, pos) ==
    IF type = "coronary"
    THEN IF pos = 2 THEN coronary_first ELSE coronary_second
    ELSE IF pos = 2 THEN tavi_first ELSE tavi_second

\* C6: every quota entry stays >= 0, a quota entry is the configured quota less
\* the assignments made (so a doctor at 0 is not assigned again), a doctor
\* picked for a slot has quota left, and no doctor's assignments in a
\* sub-role exceed the configured quota.
C6_QuotasRespected ==
    \A type \in {"coronary", "TAVI"}, pos \in {2, 3}, doc \in RegularNames :
        /\ Assigned(type, pos, doc) <= ClaimedQuota(type, pos, doc)
        /\ pc \in {"sessions_loop", "pairing"} =>
              /\ QuotaTable(type, pos)[doc] >= 0
              /\ QuotaTable(type, pos)[doc] + Assigned(type, pos, doc)
                    = ClaimedQuota(type, pos, doc)
        /\ pc = "pairing" =>
              /\ chosen_first # None => first[chosen_first] > 0
              /\ chosen_second # None => second[chosen_second] > 0

\* A primary was picked for a day while another doctor's primary quota for that
\* session type was already used up.
C6_Witness ==
    /\ pc = "pairing" /\ chosen_first # None
    /\ \E doc \in RegularNames : first[doc] = 0 /\ doc # chosen_first
\* --------------------------------------------------- claims on assign_standby
\* The special doctors that can be drawn by the fallback phase.
EligiblePool == Range(NamesOfType(doctors, "special")) \ {"Greenberg", "Katya"}

\* assign_standby has returned.
StandbyCompleted ==
    \/ call = "assign_standby" /\ pc = "done"
    \/ call = "generate_schedule" /\ pc \in {"clinic", "clinic_assign", "done"}

\* generate_schedule has returned its table.
TableReturned == call = "generate_schedule" /\ pc = "done"

\* C3: with a standby-eligible special doctor in the roster, once
\* assign_standby has completed every day has a standby doctor, and every row
\* of the returned table has a non-empty Standby Doctor field.
C3_EveryDayHasStandby ==
    (EligiblePool # {} /\ StandbyCompleted) =>
        /\ \A day \in Days : standby[day] # None
        /\ TableReturned => \A day \in Days : rows[day][5] # ""

\* A table was returned in which the fallback phase filled a day.
C3_Witness ==
    /\ TableReturned
    /\ EligiblePool # {}
    /\ \E day \in Days : rows[day][5] \in EligiblePool

\* C4: a doctor whose unavailable-standby list holds every day of the month is
\* never a standby doctor.
C4_FullyUnavailableNeverOnStandby ==
    \A name \in DOMAIN unavailable_standby_days :
        Days \subseteq unavailable_standby_days[name] =>
            \A day \in Days : standby[day] # name

\* C9: with an empty fallback pool the fallback loop never passes a day that
\* has no standby doctor, so no run completes with such a day.
C9_EmptyPoolNeverCompletesWithGap ==
    EligiblePool = {} =>
        /\ StandbyCompleted => \A day \in Days : standby[day] # None
        /\ pc = "standby_fallback" => \A day \in 1..k : standby[day] # None

\* The run failed on a day that the regular-doctor phases left without a
\* standby doctor.
C9_Witness ==
    /\ EligiblePool = {}
    /\ pc = "error" /\ error = "IndexError"
    /\ \E day \in Days : standby[day] = None

\* The Saturdays on which Hana is the standby doctor.
HanaStandbySaturdays == {day \in Days : day_of_week(day) = 6 /\ standby[day] = "Hana"}

\* C10: with weekends = {5, 6} Hana is the standby doctor on at most one
\* Saturday.
C10_HanaAtMostOneSaturday ==
    weekends = {5, 6} => Cardinality(HanaStandbySaturdays) <= 1

\* assign_standby has returned on a month of the application's size with Hana
\* on one Saturday and on weekdays as well, and another Saturday left to the
\* fallback phase.
C10_Witness ==
    /\ call = "assign_standby" /\ pc = "done"
    /\ num_of_days_in_month - 1 >= AppMinDays
    /\ Cardinality(HanaStandbySaturdays) = 1
    /\ \E day \in Days : is_weekday(day) /\ standby[day] = "Hana"
    /\ \E day \in Days : day_of_week(day) = 6 /\ standby[day] \in EligiblePool

\* ------------------------------------------------ claims on the clinic step
\* The days the clinic step may use.
ClinicEligible == {day \in Days : is_weekday(day) /\ day \notin unavailable_clinic_days}

\* The rows of the returned table that carry a clinic doctor.
ClinicRows == {day \in DOMAIN rows : rows[day][6] # ""}
ClinicRowsOf(name) == {day \in DOMAIN rows : rows[day][6] = name}

Differ(a, b) == IF a < b THEN b - a ELSE a - b

\* C7: the clinic step assigns three distinct eligible days, each to Perl or
\* Amos, and after every assignment the two counts differ by at most 1.
C7_ThreeBalancedClinicDays ==
    /\ pc = "clinic_assign" =>
          /\ Len(clinic_days) = 3
          /\ Cardinality(Range(clinic_days)) = 3
          /\ Range(clinic_days) \subseteq ClinicEligible
          /\ DOMAIN clinic_assignments = {clinic_days[j] : j \in 1..k}
          /\ \A day \in DOMAIN clinic_assignments :
                clinic_assignments[day] \in {"Perl", "Amos"}
          /\ \A name \in {"Perl", "Amos"} :
                count[name] = Cardinality({day \in DOMAIN clinic_assignments :
                                              clinic_assignments[day] = name})
          /\ Differ(count["Perl"], count["Amos"]) <= 1
    /\ TableReturned =>
          /\ Cardinality(ClinicRows) = 3
          /\ ClinicRows \subseteq ClinicEligible
          /\ \A day \in ClinicRows : rows[day][6] \in {"Perl", "Amos"}
          /\ Differ(Cardinality(ClinicRowsOf("Perl")),
                    Cardinality(ClinicRowsOf("Amos"))) <= 1

\* A table was returned for a month with more than three eligible days, with
\* two clinic days for Amos and one for Perl.
C7_Witness ==
    /\ TableReturned
    /\ Cardinality(ClinicEligible) > 3
    /\ Cardinality(ClinicRowsOf("Amos")) = 2
    /\ Cardinality(ClinicRowsOf("Perl")) = 1

\* C8: with fewer than 3 eligible clinic days generate_schedule assigns no
\* clinic day and returns no table: it ends in an exception; no returned table
\* has fewer than 3 clinic assignments.
C8_TooFewClinicDaysIsAnError ==
    call = "generate_schedule" =>
        /\ Cardinality(ClinicEligible) < 3 =>
              /\ pc \notin {"clinic_assign", "done"}
              /\ rows = <<>>
        /\ pc = "done" => Cardinality(ClinicRows) >= 3
        /\ pc = "error" => error \in {"ValueError", "IndexError"}

\* The clinic step was reached (every day has its standby doctor) with fewer
\* than 3 eligible days, and the run ended in ValueError.
C8_Witness ==
    /\ call = "generate_schedule"
    /\ Cardinality(ClinicEligible) < 3
    /\ \A day \in Days : standby[day] # None
    /\ pc = "error" /\ error = "ValueError"
    /\ rows = <<>>

\* ------------------------------------------------ claims on the row merge
\* C11: the step that returns the table builds one row per day, for days 1..N
\* in ascending order; a row carries the day's recorded session or three empty
\* fields, the day's entry of the standby map, and the day's clinic doctor or
\* an empty field.
C11_RowsMergeTheThreeMaps ==
    [][(pc = "clinic_assign" /\ pc' = "done") =>
          /\ DOMAIN rows' = 1..(num_of_days_in_month - 1)
          /\ \A day \in DOMAIN rows' :
                /\ Len(rows'[day]) = 6
                /\ rows'[day][1] = day
                /\ IF schedule[day] # NoSession
                   THEN <<rows'[day][2], rows'[day][3], rows'[day][4]>> = schedule[day]
                   ELSE <<rows'[day][2], rows'[day][3], rows'[day][4]>> = <<"", "", "">>
                /\ rows'[day][5] = standby[day]
                /\ IF day \in DOMAIN clinic_assignments
                   THEN rows'[day][6] = clinic_assignments[day]
                   ELSE rows'[day][6] = ""]_vars

\* A table was returned with a session row, a row without a session, a clinic
\* row and a row without a clinic doctor.
C11_Witness ==
    /\ TableReturned
    /\ \E day \in DOMAIN rows : rows[day][2] # "" /\ rows[day][2] = schedule[day][1]
    /\ \E day \in DOMAIN rows : rows[day][2] = "" /\ schedule[day] = NoSession
    /\ \E day \in DOMAIN rows : rows[day][6] # ""
    /\ \E day \in DOMAIN rows : rows[day][6] = ""
    /\ \A day \in DOMAIN rows : rows[day][5] = standby[day]

\* ------------------------------------------- claims on the weekend blocks
\* C13: whenever the weekend-block phase gives a doctor a (friday, saturday)
\* pair, the Saturday is the day after the Friday.
C13_WeekendBlockIsOneWeekend ==
    (/\ pc = "standby_weekend"
     /\ k < WeekendPairs
     /\ \E j \in 1..Len(regulars) :
           TakesWeekend(regulars[j], fridays[k + 1], saturdays[k + 1]))
    => saturdays[k + 1] = fridays[k + 1] + 1

\* --------------------------------------------- claims on the session types
\* The non-holiday days of the shuffled list whose position gives them a type.
TypedDays(type) ==
    {j \in 1..Len(days) :
        /\ days[j] \notin holidays
        /\ (IF j - 1 < half_point THEN "coronary" ELSE "TAVI") = type}

\* C14: once the weekdays are shuffled, the number of non-holiday days typed
\* coronary and the number typed TAVI differ by at most 1.
C14_TypesSplitEligibleDaysInHalf ==
    pc \in {"sessions_loop", "pairing"} =>
        Differ(Cardinality(TypedDays("coronary")),
               Cardinality(TypedDays("TAVI"))) <= 1

\* C15: a recorded session is one (type, primary, secondary) triple on a day
\* that is neither a weekend day nor a holiday, and while assign_sessions runs
\* the days it has yet to visit hold no session, so that a day is written at
\* most once.
C15_OneSessionOnWorkingDaysOnly ==
    /\ \A day \in DOMAIN schedule :
          Recorded(day) =>
              /\ day_of_week(day) \notin weekends
              /\ day \notin holidays
              /\ schedule[day] \in {"coronary", "TAVI"} \X RegularNames \X RegularNames
    /\ pc \in {"sessions_loop", "pairing"} =>
          /\ \A a, b \in 1..Len(days) : days[a] = days[b] => a = b
          /\ \A j \in (i + 1)..Len(days) : ~Recorded(days[j])

\* assign_sessions has returned with a session recorded, in a month that has a
\* holiday on a weekday and a weekend day.
C15_Witness ==
    /\ call = "assign_sessions" /\ pc = "done"
    /\ \E day \in Days : Recorded(day)
    /\ \E day \in Days : day \in holidays /\ day_of_week(day) \notin weekends
    /\ \E day \in Days : day_of_week(day) \in weekends

\* ------------------------------------------- claims on the standby quotas
\* The days on which a doctor is the standby doctor.
StandbyDaysOf(name) == {day \in Days : standby[day] = name}

\* The standby quota the claim states for a regular doctor.
ClaimedStandbyQuota(name) == IF name = "Hana" THEN 4 ELSE 5

\* C16: while assign_standby runs every remaining standby quota is >= 0 and is
\* the quota less the days given to the doctor, a doctor who can take the next
\* weekend block has at least 2 left, and a regular doctor is the standby
\* doctor on at most 5 days (Hana 4).
C16_StandbyQuotaNeverNegative ==
    /\ \A name \in RegularNames :
          Cardinality(StandbyDaysOf(name)) <= ClaimedStandbyQuota(name)
    /\ pc \in {"standby_hana", "standby_weekend", "standby_weekdays",
                "standby_fallback"} =>
          \A name \in DOMAIN standby_counts :
              /\ standby_counts[name] >= 0
              /\ standby_counts[name] + Cardinality(StandbyDaysOf(name))
                    = ClaimedStandbyQuota(name)
    /\ (pc = "standby_weekend" /\ k < WeekendPairs) =>
          \A j \in 1..Len(regulars) :
              TakesWeekend(regulars[j], fridays[k + 1], saturdays[k + 1]) =>
                  standby_counts[regulars[j]] >= 2

\* assign_standby has returned with both regular doctors at their quota, one
\* of them with two weekend blocks.
C16_Witness ==
    /\ call = "assign_standby" /\ pc = "done"
    /\ Cardinality(StandbyDaysOf("Hana")) = 4
    /\ Cardinality(StandbyDaysOf("Pablo")) = 5
    /\ Cardinality({day \in StandbyDaysOf("Pablo") : ~is_weekday(day)}) = 4

\* C17: a regular doctor who is the standby doctor of a day does not have that
\* day in their unavailable-standby list, and a doctor who can take the next
\* weekend block has neither day of the pair in that list.
C17_RegularStandbyIsAvailable ==
    /\ \A day \in Days :
          standby[day] \in RegularNames =>
              day \notin Get(unavailable_standby_days, standby[day])
    /\ (pc = "standby_weekend" /\ k < WeekendPairs) =>
          \A j \in 1..Len(regulars) :
              TakesWeekend(regulars[j], fridays[k + 1], saturdays[k + 1]) =>
                  /\ fridays[k + 1] \notin Get(unavailable_standby_days, regulars[j])
                  /\ saturdays[k + 1] \notin Get(unavailable_standby_days, regulars[j])

\* assign_standby has returned for two regular doctors who are both
\* unavailable in the first week: Hana took a later Saturday, Pablo a weekend
\* block and weekdays, and the first week went to the fallback pool.
C17_Witness ==
    /\ call = "assign_standby" /\ pc = "done"
    /\ \A name \in {"Hana", "Pablo"} :
          /\ Get(unavailable_standby_days, name) = 1..7
          /\ \E day \in StandbyDaysOf(name) : is_weekday(day)
          /\ \E day \in StandbyDaysOf(name) : ~is_weekday(day)
    /\ \A day \in 1..7 : standby[day] \in EligiblePool

\* ------------------------------------------------ claims on repeated calls
\* The number of rows of the returned table in which a doctor holds a position
\* of a session type (2 = primary, 3 = secondary).
TableCount(type, pos, doc) ==
    Cardinality({day \in DOMAIN rows :
                    rows[day][2] = type /\ rows[day][pos + 1] = doc})

\* C18: after any number of calls on the same Month the returned table keeps
\* the per-doctor session quotas and standby quotas.
C18_ReturnedTableKeepsQuotas ==
    TableReturned =>
        \A doc \in RegularNames :
            /\ \A type \in {"coronary", "TAVI"}, pos \in {2, 3} :
                  TableCount(type, pos, doc) <= ClaimedQuota(type, pos, doc)
            /\ Cardinality({day \in DOMAIN rows : rows[day][5] = doc})
                  <= ClaimedStandbyQuota(doc)

\* ------------------------------------------ claims on the standby map
\* C19: in a run of assign_standby on a fresh Month no step changes a day that
\* has a standby doctor, no step places Greenberg or Katya, and a step of the
\* fallback phase writes a special doctor of the pool to a day that had none.
C19_StandbyWrittenOnce ==
    [][/\ \A day \in DOMAIN standby :
             standby[day] # None => standby'[day] = standby[day]
       /\ \A day \in DOMAIN standby : standby'[day] \notin {"Greenberg", "Katya"}
       /\ pc = "standby_fallback" =>
             \A day \in DOMAIN standby :
                 standby'[day] # standby[day] =>
                     standby[day] = None /\ standby'[day] \in EligiblePool]_vars

\* assign_standby has returned on a roster that lists Greenberg and Katya,
\* with days written by each of the four phases.
C19_Witness ==
    /\ call = "assign_standby" /\ pc = "done"
    /\ {"Greenberg", "Katya"} \subseteq Range(NamesOfType(doctors, "special"))
    /\ \E day \in Days : day_of_week(day) = 6 /\ standby[day] = "Hana"
    /\ \E day \in Days : day_of_week(day) = 5 /\ standby[day] = "Pablo"
    /\ \E day \in Days : is_weekday(day) /\ standby[day] \in RegularNames
    /\ \E day \in Days : standby[day] \in EligiblePool

\* ------------------------------------------------- claims on what is left
\* C20: a step of assign_sessions leaves the standby map as it is, a step of
\* assign_standby leaves the session map as it is, every other step (the call,
\* the clinic step, the row merge) leaves both, and no step changes the
\* roster, the weekend set, the holiday list or an unavailability list.
C20_EachStepKeepsOtherMaps ==
    [][/\ <<doctors, weekends, holidays, unavailable_sessions_days,
            unavailable_standby_days, unavailable_clinic_days>>'
          = <<doctors, weekends, holidays, unavailable_sessions_days,
              unavailable_standby_days, unavailable_clinic_days>>
       /\ pc \in {"assign_sessions", "sessions_loop", "pairing"} =>
             standby' = standby
       /\ pc \in {"assign_standby", "standby_hana", "standby_weekend",
                   "standby_weekdays", "standby_fallback"} =>
             schedule' = schedule
       /\ pc \in {"generate_schedule", "clinic", "clinic_assign", "done"} =>
             schedule' = schedule /\ standby' = standby]_vars

\* A table was returned for a month with a holiday and with unavailable days
\* of each kind, after sessions were recorded and the standby map was filled
\* by a regular doctor and by the fallback pool.
C20_Witness ==
    /\ TableReturned
    /\ holidays # {} /\ unavailable_clinic_days # {}
    /\ Get(unavailable_sessions_days, "Hana") # {}
    /\ \E day \in Days : Recorded(day)
    /\ \E day \in Days : standby[day] \in RegularNames
    /\ \E day \in Days : standby[day] \in EligiblePool
====
